---- MODULE Spec2Model ----
(***************************************************************************)
(* Model of the image-to-video pipeline of videos_from_pictures.py and its *)
(* non-interactive twin imgg.py: start_conversion parses the resolution    *)
(* and checks the folder, create_video_from_images discovers the images    *)
(* (find_images), orders them by modification date, letterboxes each one,  *)
(* builds the clip, asks for the save path and hands the clip to the       *)
(* encoder.                                                                *)
(*                                                                         *)
(* Strings whose characters the code inspects (the resolution string, the  *)
(* file names) are sequences of one-character strings.  The filesystem,    *)
(* the clock's time zone, the save dialog and the encoder are the          *)
(* environment: the filesystem is drawn in Init, the dialog's answer and   *)
(* the encoder's outcome are drawn when the code calls them.               *)
(***************************************************************************)
EXTENDS Integers, Sequences, FiniteSets, TLC

VARIABLES
    pc,                  \* position of the handler start_conversion
    resolution_str,      \* text of the resolution field
    resolution,          \* tuple(map(int, resolution_str.split('x')))
    walk,                \* what os.walk(folder_path) yields: one file list per directory
    tz,                  \* local time zone used by datetime.fromtimestamp
    found,               \* find_images: image_files
    num_folders_scanned, \* find_images: num_folders_scanned
    format_counts,       \* find_images: format_counts
    progress,            \* texts passed to update_progress_label, as <<folders, files>>
    all_image_paths,     \* create_video_from_images: all_image_paths
    image_files,         \* create_video_from_images: image_files, (filepath, date_created)
    resized_images,      \* create_video_from_images: resized_images
    clip,                \* the ImageSequenceClip, or NoClip
    save_path,           \* answer of filedialog.asksaveasfilename
    output_file,         \* what is on disk at save_path
    dialogs,             \* message boxes shown, in order
    called               \* library/stage calls made so far

vars == <<pc, resolution_str, resolution, walk, tz, found, num_folders_scanned,
          format_counts, progress, all_image_paths, image_files,
          resized_images, clip, save_path, output_file, dialogs, called>>

(***************************************************************************)
(* Bounds of the explored inputs.                                          *)
(***************************************************************************)
MaxFiles == 2
MaxDirs == 2
MaxScanFiles == 2
MaxScanDirs == 3
MaxPaths == 3
MaxTime == 7
MaxDim == 5
MaxRes == 5

(***************************************************************************)
(* Generic helpers.                                                        *)
(***************************************************************************)
SeqsUpTo(S, n) == UNION {[1..k -> S] : k \in 0..n}

RECURSIVE Flatten(_)
Flatten(ss) == IF ss = <<>> THEN <<>> ELSE Head(ss) \o Flatten(Tail(ss))

Digits == {"0", "1", "2", "3", "4", "5", "6", "7", "8", "9"}

DigitValue(c) ==
    CASE c = "0" -> 0 [] c = "1" -> 1 [] c = "2" -> 2 [] c = "3" -> 3
      [] c = "4" -> 4 [] c = "5" -> 5 [] c = "6" -> 6 [] c = "7" -> 7
      [] c = "8" -> 8 [] c = "9" -> 9

(***************************************************************************)
(* start_conversion: resolution_str.split('x') and int() of every part.    *)
(***************************************************************************)
RECURSIVE Split(_)
Split(s) ==
    IF \A i \in 1..Len(s) : s[i] # "x"
    THEN <<s>>
    ELSE LET i == CHOOSE k \in 1..Len(s) :
                      s[k] = "x" /\ \A j \in 1..(k - 1) : s[j] # "x"
         IN  <<SubSeq(s, 1, i - 1)>> \o Split(SubSeq(s, i + 1, Len(s)))

\* int(part) raises ValueError unless part is an optional sign and digits
IntRaises(part) ==
    LET body == IF part # <<>> /\ Head(part) = "-" THEN Tail(part) ELSE part
    IN  body = <<>> \/ \E i \in 1..Len(body) : body[i] \notin Digits

RECURSIVE NatValue(_)
NatValue(ds) ==
    IF ds = <<>> THEN 0
    ELSE 10 * NatValue(SubSeq(ds, 1, Len(ds) - 1)) + DigitValue(ds[Len(ds)])

IntValue(part) ==
    IF Head(part) = "-" THEN 0 - NatValue(Tail(part)) ELSE NatValue(part)

ParseRaises(s) == \E i \in 1..Len(Split(s)) : IntRaises(Split(s)[i])

ParseResolution(s) == [i \in 1..Len(Split(s)) |-> IntValue(Split(s)[i])]

\* the resolution the specification calls well formed: two positive integers
WellFormed(s) ==
    /\ ~ParseRaises(s)
    /\ Len(ParseResolution(s)) = 2
    /\ ParseResolution(s)[1] > 0
    /\ ParseResolution(s)[2] > 0

(***************************************************************************)
(* The filesystem.  walk[d] is the file list os.walk yields for the d-th   *)
(* directory; a file is its name, what os.path.getmtime gives (NoStat when *)
(* it raises) and the size Image.open finds (Undecodable when it raises).  *)
(* A path, os.path.join(root, filename), is <<d, i>>.                      *)
(***************************************************************************)
NoStat == 0 - 1
Undecodable == <<>>

File(n, t, im) == [name |-> n, mtime |-> t, img |-> im]

FileAt(p) == walk[p[1]][p[2]]

\* files cut into nd directories behind the positions cuts[1] <= cuts[2] <= ...
CutInto(files, nd, cuts) ==
    [d \in 1..nd |->
        SubSeq(files, IF d = 1 THEN 1 ELSE cuts[d - 1] + 1,
                      IF d = nd THEN Len(files) ELSE cuts[d])]

\* every walk of 1..maxDirs directories holding at most maxFiles files of kinds
Walks(kinds, maxFiles, maxDirs) ==
    UNION { { CutInto(files, nd, cuts) :
                cuts \in {c \in [1..(nd - 1) -> 0..Len(files)] :
                             \A i \in 1..(nd - 2) : c[i] <= c[i + 1]} } :
            files \in SeqsUpTo(kinds, maxFiles), nd \in 1..maxDirs }

(***************************************************************************)
(* find_images.                                                            *)
(***************************************************************************)
LowerChar(c) ==
    CASE c = "P" -> "p" [] c = "N" -> "n" [] c = "G" -> "g" [] c = "J" -> "j"
      [] c = "E" -> "e" [] c = "I" -> "i" [] c = "F" -> "f" [] c = "B" -> "b"
      [] OTHER -> c

Lower(s) == [i \in 1..Len(s) |-> LowerChar(s[i])]

EndsWith(s, suffix) ==
    /\ Len(suffix) <= Len(s)
    /\ SubSeq(s, Len(s) - Len(suffix) + 1, Len(s)) = suffix

ImageSuffixes ==
    { <<".", "p", "n", "g">>, <<".", "j", "p", "g">>,
      <<".", "j", "p", "e", "g">>, <<".", "g", "i", "f">> }

\* the test of line 27 without lower()
IsImageNameCaseSensitive(filename) == \E suffix \in ImageSuffixes : EndsWith(filename, suffix)

\* filename.lower().endswith(('.png', '.jpg', '.jpeg', '.gif'))
IsImageName(filename) == \E suffix \in ImageSuffixes : EndsWith(Lower(filename), suffix)

\* os.path.splitext(filename)[1]: from the last dot on, leading dots not counted
Splitext1(filename) ==
    LET lead == CHOOSE k \in 0..Len(filename) :
                    /\ \A j \in 1..k : filename[j] = "."
                    /\ (k < Len(filename) => filename[k + 1] # ".")
        dots == {k \in (lead + 1)..Len(filename) : filename[k] = "."}
    IN  IF dots = {} THEN <<>>
        ELSE LET last == CHOOSE k \in dots : \A j \in dots : j <= k
             IN  SubSeq(filename, last, Len(filename))

\* the paths of the matching files of directory d, in listing order
RECURSIVE MatchesIn(_, _)
MatchesIn(d, i) ==
    IF i > Len(walk[d]) THEN <<>>
    ELSE (IF IsImageName(walk[d][i].name) THEN << <<d, i>> >> ELSE <<>>)
            \o MatchesIn(d, i + 1)

\* format_counts after counting the files of paths
RECURSIVE CountFormats(_, _)
CountFormats(counts, paths) ==
    IF paths = <<>> THEN counts
    ELSE LET file_extension == Lower(Splitext1(FileAt(Head(paths)).name))
             next == IF file_extension \in DOMAIN counts
                     THEN [counts EXCEPT ![file_extension] = @ + 1]
                     ELSE [e \in DOMAIN counts \cup {file_extension} |->
                              IF e = file_extension THEN 1 ELSE counts[e]]
         IN  CountFormats(next, Tail(paths))

\* one iteration of the loop over os.walk: a directory, then its progress text
FindImagesStep ==
    /\ pc = "find"
    /\ num_folders_scanned < Len(walk)
    /\ LET d == num_folders_scanned + 1
           matched == MatchesIn(d, 1)
       IN  /\ num_folders_scanned' = d
           /\ found' = found \o matched
           /\ format_counts' = CountFormats(format_counts, matched)
           /\ progress' = Append(progress, <<d, Len(found \o matched)>>)
    /\ UNCHANGED <<pc, resolution_str, resolution, walk, tz, all_image_paths,
                   image_files, resized_images, clip, save_path, output_file,
                   dialogs, called>>

\* return image_files
FindImagesReturn ==
    /\ pc = "find"
    /\ num_folders_scanned = Len(walk)
    /\ all_image_paths' = found
    /\ pc' = "stat"
    /\ UNCHANGED <<resolution_str, resolution, walk, tz, found,
                   num_folders_scanned, format_counts, progress, image_files,
                   resized_images, clip, save_path, output_file, dialogs, called>>

\* imgg.py's find_images: the same walk, no counters and no progress text
RECURSIVE ImggFindImages(_)
ImggFindImages(d) ==
    IF d > Len(walk) THEN <<>> ELSE MatchesIn(d, 1) \o ImggFindImages(d + 1)

(***************************************************************************)
(* Ordering: os.path.getmtime, datetime.fromtimestamp and the stable sort. *)
(* getmtime gives a float of seconds, finer than the microsecond a         *)
(* datetime holds; here a timestamp counts ticks of 1/TicksPerMicro        *)
(* microsecond.  fromtimestamp rounds to the microsecond (half to even)    *)
(* and gives the naive LOCAL time: in a zone with daylight saving the      *)
(* offset from UTC drops by DstShift at the instant DstEnd.                *)
(***************************************************************************)
TicksPerMicro == 2
DstEnd == 4
DstShift == 2
TimeZones == {"UTC", "DST"}

RoundHalfEven(t) ==
    LET q == t \div TicksPerMicro
        r == t % TicksPerMicro
    IN  IF 2 * r < TicksPerMicro THEN q
        ELSE IF 2 * r > TicksPerMicro THEN q + 1
        ELSE IF q % 2 = 0 THEN q ELSE q + 1

UtcOffset(zone, t) == IF zone = "DST" /\ t < DstEnd THEN DstShift ELSE 0

FromTimestamp(zone, t) == RoundHalfEven(t) + UtcOffset(zone, t)

\* lines 69-76: one (filepath, date_created) per path whose getmtime succeeds
RECURSIVE StatAll(_)
StatAll(paths) ==
    IF paths = <<>> THEN <<>>
    ELSE LET filepath == Head(paths)
             timestamp == FileAt(filepath).mtime
         IN  (IF timestamp = NoStat THEN <<>>
              ELSE << <<filepath, FromTimestamp(tz, timestamp)>> >>)
                 \o StatAll(Tail(paths))

\* list.sort(key=lambda x: x[1]) is stable: x goes behind every element whose
\* key is not greater
InsertByDate(sorted, x) ==
    LET n == Cardinality({i \in 1..Len(sorted) : sorted[i][2] <= x[2]})
    IN  SubSeq(sorted, 1, n) \o <<x>> \o SubSeq(sorted, n + 1, Len(sorted))

RECURSIVE SortByDate(_)
SortByDate(xs) ==
    IF xs = <<>> THEN <<>>
    ELSE InsertByDate(SortByDate(SubSeq(xs, 1, Len(xs) - 1)), xs[Len(xs)])

\* line 78 without its test: the empty list goes on to the sort and the loop
NoImagesUnchecked(stated) == FALSE

\* line 78: not image_files
NoImages(stated) == stated = <<>>

InfoNoImages == "showinfo: images not found"
ErrorVideo == "showerror: video creation failed"
ErrorResolution == "showerror: bad resolution format"
ErrorFolder == "showerror: bad folder path"
InfoSuccess == "showinfo: video created"

\* lines 69-82: the stat loop, the empty check and the sort
Ordering ==
    /\ pc = "stat"
    /\ LET stated == StatAll(all_image_paths)
       IN  IF NoImages(stated)
           THEN /\ image_files' = <<>>
                /\ dialogs' = Append(dialogs, InfoNoImages)
                /\ pc' = "done"
           ELSE /\ image_files' = SortByDate(stated)
                /\ dialogs' = dialogs
                /\ pc' = "transform"
    /\ UNCHANGED <<resolution_str, resolution, walk, tz, found,
                   num_folders_scanned, format_counts, progress,
                   all_image_paths, resized_images, clip, save_path,
                   output_file, called>>

(***************************************************************************)
(* Frame Transform, lines 86-113.  int() truncates toward zero and // is   *)
(* the floor division.  The quotients are computed exactly: for every size *)
(* and resolution up to 8 the double-precision results of                  *)
(* int(width / (w / h)) and int(height * (w / h)) equal these (the first   *)
(* difference is int(9 / (9 / 7)) = 6).                                    *)
(***************************************************************************)
Trunc(a, b) == IF a >= 0 THEN a \div b ELSE 0 - ((0 - a) \div b)

\* lines 91-99 with >= for > in line 94: a square image takes the wide branch
NewSizeSquareAsWide(img, res) ==
    LET width == res[1]
        height == res[2]
    IN  IF img[1] >= img[2]
        THEN <<width, Trunc(width * img[2], img[1])>>
        ELSE <<Trunc(height * img[1], img[2]), height>>

\* lines 91-99: (new_width, new_height) of an image of size img
NewSize(img, res) ==
    LET width == res[1]
        height == res[2]
    IN  IF img[1] > img[2]
        THEN <<width, Trunc(width * img[2], img[1])>>
        ELSE <<Trunc(height * img[1], img[2]), height>>

\* line 108
Position(size, res) == <<(res[1] - size[1]) \div 2, (res[2] - size[2]) \div 2>>

\* Image.open raises, or width, height = resolution does, or resize is given
\* a dimension below 1, or Image.new a negative one
TransformRaises(filepath, res) ==
    \/ FileAt(filepath).img = Undecodable
    \/ Len(res) # 2
    \/ NewSize(FileAt(filepath).img, res)[1] < 1
    \/ NewSize(FileAt(filepath).img, res)[2] < 1
    \/ res[1] < 0
    \/ res[2] < 0

\* the array appended to resized_images: the canvas and what is pasted where
Frame(filepath, res) ==
    LET size == NewSize(FileAt(filepath).img, res)
    IN  [src |-> filepath, canvas |-> res, size |-> size,
         position |-> Position(size, res)]

\* line 113 putting the new frame first
PrependFrame(frames, frame) == <<frame>> \o frames

\* line 113: resized_images.append(...)
AppendFrame(frames, frame) == Append(frames, frame)

\* one iteration of the loop of line 86; an exception leaves through line 125
TransformStep ==
    /\ pc = "transform"
    /\ Len(resized_images) < Len(image_files)
    /\ LET filepath == image_files[Len(resized_images) + 1][1]
       IN  IF TransformRaises(filepath, resolution)
           THEN /\ dialogs' = Append(dialogs, ErrorVideo)
                /\ pc' = "done"
                /\ UNCHANGED resized_images
           ELSE /\ resized_images' = AppendFrame(resized_images, Frame(filepath, resolution))
                /\ UNCHANGED <<dialogs, pc>>
    /\ UNCHANGED <<resolution_str, resolution, walk, tz, found,
                   num_folders_scanned, format_counts, progress,
                   all_image_paths, image_files, clip, save_path, output_file,
                   called>>

(***************************************************************************)
(* Sequence Assembly and Encoder Handoff, lines 115-127.                   *)
(***************************************************************************)
Fps == 2
NoClip == [frames |-> <<>>, fps |-> 0]
EmptyPath == ""
SavePaths == {EmptyPath, "out.mp4"}

\* line 115
BuildClip ==
    /\ pc = "transform"
    /\ Len(resized_images) = Len(image_files)
    /\ clip' = [frames |-> resized_images, fps |-> Fps]
    /\ called' = called \cup {"ImageSequenceClip"}
    /\ pc' = "prompt"
    /\ UNCHANGED <<resolution_str, resolution, walk, tz, found,
                   num_folders_scanned, format_counts, progress,
                   all_image_paths, image_files, resized_images, save_path,
                   output_file, dialogs>>

\* line 119 without its test: an empty path goes on to the encoder
CancelledUnchecked(answer) == FALSE

\* line 119: not save_path
Cancelled(answer) == answer = EmptyPath

\* lines 118-120: the user picks a path or cancels
AskSave ==
    /\ pc = "prompt"
    /\ \E answer \in SavePaths :
          /\ save_path' = answer
          /\ pc' = IF Cancelled(answer) THEN "done" ELSE "encode"
    /\ called' = called \cup {"asksaveasfilename"}
    /\ UNCHANGED <<resolution_str, resolution, walk, tz, found,
                   num_folders_scanned, format_counts, progress,
                   all_image_paths, image_files, resized_images, clip,
                   output_file, dialogs>>

\* what write_videofile can do: finish, raise before it creates the file, or
\* raise while writing; the handler of line 125 removes nothing
EncoderOutcomes == {"written", "raised at start", "raised while writing"}

\* lines 122-127
WriteVideofile ==
    /\ pc = "encode"
    /\ \E outcome \in EncoderOutcomes :
          /\ output_file' = CASE outcome = "written" -> "complete"
                              [] outcome = "raised at start" -> output_file
                              [] outcome = "raised while writing" -> "partial"
          /\ dialogs' = Append(dialogs,
                          IF outcome = "written" THEN InfoSuccess ELSE ErrorVideo)
    /\ called' = called \cup {"write_videofile"}
    /\ pc' = "done"
    /\ UNCHANGED <<resolution_str, resolution, walk, tz, found,
                   num_folders_scanned, format_counts, progress,
                   all_image_paths, image_files, resized_images, clip,
                   save_path>>

(***************************************************************************)
(* start_conversion, lines 138-153, up to the call of find_images (67).    *)
(***************************************************************************)
\* os.path.isdir(folder_path): os.walk yields nothing for what is no directory
Isdir == walk # <<>>

StartConversion ==
    /\ pc = "start"
    /\ IF ParseRaises(resolution_str)
       THEN /\ dialogs' = Append(dialogs, ErrorResolution)
            /\ pc' = "done"
            /\ UNCHANGED <<resolution, called>>
       ELSE /\ resolution' = ParseResolution(resolution_str)
            /\ IF ~Isdir
               THEN /\ dialogs' = Append(dialogs, ErrorFolder)
                    /\ pc' = "done"
                    /\ UNCHANGED called
               ELSE /\ called' = called \cup {"find_images"}
                    /\ pc' = "find"
                    /\ UNCHANGED dialogs
    /\ UNCHANGED <<resolution_str, walk, tz, found, num_folders_scanned,
                   format_counts, progress, all_image_paths, image_files,
                   resized_images, clip, save_path, output_file>>

(***************************************************************************)
(* The whole run, over small filesystems and resolution texts.             *)
(***************************************************************************)
PngName == <<"a", ".", "p", "n", "g">>
TxtName == <<"a", ".", "t", "x", "t">>

ResolutionStrings ==
    { <<"2", "x", "1">>, <<"2", "x", "3">>, <<"2">>, <<"2", "x", "1", "x", "1">>,
      <<"0", "x", "1">>, <<"-", "1", "x", "1">>, <<"a", "x", "1">>,
      <<"2", "x">>, <<>> }

RunFiles ==
    {File(TxtName, NoStat, Undecodable)} \cup
    {File(PngName, t, im) : t \in {NoStat, 1, 2},
                            im \in {Undecodable, <<2, 1>>}}

\* nothing has run yet
NotWalked ==
    /\ found = <<>>
    /\ num_folders_scanned = 0
    /\ format_counts = <<>>
    /\ progress = <<>>
    /\ all_image_paths = <<>>

\* find_images has returned: what its loop leaves over the whole walk
Walked ==
    /\ found = ImggFindImages(1)
    /\ num_folders_scanned = Len(walk)
    /\ format_counts = CountFormats(<<>>, found)
    /\ progress = [d \in 1..Len(walk) |->
                     <<d, Len(found) - Len(ImggFindImages(d + 1))>>]
    /\ all_image_paths = found

NotEncoded ==
    /\ resized_images = <<>>
    /\ clip = NoClip
    /\ save_path = EmptyPath
    /\ output_file = "absent"
    /\ dialogs = <<>>

Init ==
    /\ pc = "start"
    /\ resolution_str \in ResolutionStrings
    /\ resolution = <<>>
    /\ walk \in Walks(RunFiles, MaxFiles, MaxDirs) \cup {<<>>}
    /\ tz = "UTC"
    /\ NotWalked
    /\ image_files = <<>>
    /\ NotEncoded
    /\ called = {}

Next ==
    \/ StartConversion
    \/ FindImagesStep
    \/ FindImagesReturn
    \/ Ordering
    \/ TransformStep
    \/ BuildClip
    \/ AskSave
    \/ WriteVideofile

Spec == Init /\ [][Next]_vars

(***************************************************************************)
(* Frame Transform alone: one image of every size up to MaxDim, every      *)
(* resolution up to MaxRes, from the state in which line 86 is reached.    *)
(***************************************************************************)
DigitChar(n) == CHOOSE c \in Digits : DigitValue(c) = n

InitScale ==
    /\ pc = "transform"
    /\ resolution \in [1..2 -> 1..MaxRes]
    /\ resolution_str = <<DigitChar(resolution[1]), "x", DigitChar(resolution[2])>>
    /\ walk \in { << <<File(PngName, 1, <<w, h>>)>> >> : w \in 1..MaxDim, h \in 1..MaxDim }
    /\ tz = "UTC"
    /\ Walked
    /\ image_files = SortByDate(StatAll(all_image_paths))
    /\ NotEncoded
    /\ called = {"find_images"}

NextScale == TransformStep

SpecScale == InitScale /\ [][NextScale]_vars

(***************************************************************************)
(* Ordering alone: up to MaxPaths discovered images with every timestamp   *)
(* up to MaxTime, in both time zones, from the state in which line 69 is   *)
(* reached.                                                                *)
(***************************************************************************)
InitOrder ==
    /\ pc = "stat"
    /\ resolution_str = <<"2", "x", "1">>
    /\ resolution = ParseResolution(resolution_str)
    /\ walk \in { <<files>> :
                    files \in SeqsUpTo({File(PngName, t, <<2, 1>>) :
                                           t \in {NoStat} \cup 0..MaxTime}, MaxPaths) }
    /\ tz \in TimeZones
    /\ Walked
    /\ image_files = <<>>
    /\ NotEncoded
    /\ called = {"find_images"}

NextOrder == Ordering

SpecOrder == InitOrder /\ [][NextOrder]_vars

(***************************************************************************)
(* Discovery alone: walks of up to MaxScanDirs directories over file names *)
(* of every shape, from the state in which find_images is entered.         *)
(***************************************************************************)
ScanNames ==
    { PngName, TxtName,
      <<"B", ".", "J", "P", "G">>,
      <<"c", ".", "J", "p", "e", "g">>,
      <<".", "g", "i", "f">>,
      <<"p", "n", "g">>,
      <<"d", ".", "p", "n", "g", ".", "b">> }

InitDiscovery ==
    /\ pc = "find"
    /\ resolution_str = <<"2", "x", "1">>
    /\ resolution = ParseResolution(resolution_str)
    /\ walk \in Walks({File(n, 1, <<2, 1>>) : n \in ScanNames},
                      MaxScanFiles, MaxScanDirs)
    /\ tz = "UTC"
    /\ NotWalked
    /\ image_files = <<>>
    /\ NotEncoded
    /\ called = {"find_images"}

NextDiscovery ==
    \/ FindImagesStep
    \/ FindImagesReturn

SpecDiscovery == InitDiscovery /\ [][NextDiscovery]_vars

(***************************************************************************)
(* Properties.                                                             *)
(***************************************************************************)
Paths(recs) == [i \in 1..Len(recs) |-> recs[i][1]]

Range(f) == {f[i] : i \in DOMAIN f}

\* the discovered paths whose getmtime does not raise, in discovery order
Statable(p) == FileAt(p).mtime # NoStat
ReadablePaths == SelectSeq(all_image_paths, Statable)

\* a record of image_files whose file decodes / decodes and scales
Decodes(rec) == FileAt(rec[1]).img # Undecodable
Transforms(rec) == ~TransformRaises(rec[1], resolution)

\* the stat loop and the sort are over
OrderingDone == "find_images" \in called /\ pc \notin {"find", "stat"}

\* C1: a file that cannot be stat-ed, decoded or resized is skipped and the
\* other files are still processed: a finished run over a well-formed
\* resolution whose images include a bad file and a good one has shown the
\* save prompt, with a clip of exactly the good files' frames.
C1_BadFileNeverAbortsRun ==
    ( /\ pc = "done"
      /\ WellFormed(resolution_str)
      /\ OrderingDone
      /\ \/ \E i \in 1..Len(all_image_paths) : ~Statable(all_image_paths[i])
         \/ \E i \in 1..Len(image_files) : ~Transforms(image_files[i])
      /\ \E i \in 1..Len(image_files) : Transforms(image_files[i]) )
    => /\ "asksaveasfilename" \in called
       /\ Paths(SelectSeq(image_files, Transforms))
             = [i \in 1..Len(clip.frames) |-> clip.frames[i].src]

\* C2: when no discovered path has a readable modification time, the run is
\* over as soon as the ordering is: the "images not found" information is the
\* only dialog, no frame was made, no clip built, no save prompt shown, the
\* encoder not called and nothing written.
C2_EmptyListEndsAsNoImagesFound ==
    (OrderingDone /\ ReadablePaths = <<>>)
    => /\ pc = "done"
       /\ dialogs = <<InfoNoImages>>
       /\ resized_images = <<>>
       /\ clip = NoClip
       /\ called = {"find_images"}
       /\ output_file = "absent"

\* C2's case: images were discovered and every getmtime failed
C2_Witness ==
    /\ OrderingDone
    /\ all_image_paths # <<>>
    /\ ReadablePaths = <<>>
    /\ dialogs = <<InfoNoImages>>

\* C3: once the save prompt has returned the empty path the run is over, the
\* encoder was not called, nothing is on disk and no dialog was shown,
\* however many frames were prepared.
C3_CancelLeavesNothing ==
    ("asksaveasfilename" \in called /\ save_path = EmptyPath)
    => /\ pc = "done"
       /\ "write_videofile" \notin called
       /\ output_file = "absent"
       /\ dialogs = <<>>

\* C3's case: a cancelled prompt after two frames were prepared
C3_Witness ==
    /\ "asksaveasfilename" \in called
    /\ save_path = EmptyPath
    /\ Len(clip.frames) = 2

\* C6: a resolution text that is not two positive integers around one 'x'
\* never lets the directory walk start, and its run never shows the
\* "images not found", the success or the video-creation-failure dialog.
C6_MalformedResolutionStopsBeforeDiscovery ==
    ~WellFormed(resolution_str)
    => /\ "find_images" \notin called
       /\ Range(dialogs) \cap {InfoNoImages, InfoSuccess, ErrorVideo} = {}

\* C7: at the end of a run there is a file at the output path exactly when
\* the run ended with the success dialog, and that file is complete.
C7_OutputFileOnlyOnSuccess ==
    pc = "done"
    => /\ (output_file # "absent") <=> (InfoSuccess \in Range(dialogs))
       /\ output_file \in {"absent", "complete"}

\* C8: a built clip runs at 2 frames per second and holds, in the order of
\* the sorted list, one frame per image of that list that decodes: the
\* i-th frame is the letterbox of the i-th such image on the resolution's
\* canvas.
C8_ClipIsTheDecodedImagesInOrder ==
    "ImageSequenceClip" \in called
    => LET decoded == SelectSeq(image_files, Decodes)
       IN  /\ clip.fps = 2
           /\ Len(clip.frames) = Len(decoded)
           /\ \A i \in 1..Len(decoded) :
                 /\ clip.frames[i].src = decoded[i][1]
                 /\ clip.frames[i].canvas = resolution
                 /\ clip.frames[i].size = NewSize(FileAt(decoded[i][1]).img, resolution)

\* C8's case: a clip of two frames whose order is not the discovery order
C8_Witness ==
    /\ "ImageSequenceClip" \in called
    /\ Len(clip.frames) = 2
    /\ clip.frames[1].src = all_image_paths[2]
    /\ clip.frames[2].src = all_image_paths[1]

\* position of path p in the discovery order
DiscoveryIndex(p) == CHOOSE k \in 1..Len(all_image_paths) : all_image_paths[k] = p

\* C4: after the ordering the list handed to Frame Transform holds exactly
\* the stat-able paths, ascending by modification timestamp, paths of equal
\* timestamp in discovery order.
C4_SortedByTimestampStable ==
    OrderingDone
    => LET ordered == Paths(image_files)
       IN  /\ Len(ordered) = Len(ReadablePaths)
           /\ Range(ordered) = Range(ReadablePaths)
           /\ \A i, j \in 1..Len(ordered) :
                 i < j =>
                    \/ FileAt(ordered[i]).mtime < FileAt(ordered[j]).mtime
                    \/ /\ FileAt(ordered[i]).mtime = FileAt(ordered[j]).mtime
                       /\ DiscoveryIndex(ordered[i]) < DiscoveryIndex(ordered[j])

\* the loop of line 86 was left by an exception at the record it had reached
FailedAt(rec) ==
    /\ pc = "done"
    /\ ErrorVideo \in Range(dialogs)
    /\ "ImageSequenceClip" \notin called
    /\ rec = image_files[Len(resized_images) + 1]

\* the size of the image behind a frame is square
SquareSource(frame) == FileAt(frame.src).img[1] = FileAt(frame.src).img[2]

\* C5 as stated: the frame of a square image is drawn over the whole canvas,
\* newWidth == W and newHeight == H.
C5_SquareFillsCanvas ==
    \A i \in 1..Len(resized_images) :
        SquareSource(resized_images[i])
        => resized_images[i].size = <<resolution[1], resolution[2]>>

\* C5 amended: a square image is always scaled, and to the canvas height in
\* both dimensions, newWidth == H and newHeight == H (the whole canvas only
\* when W == H).
C5_SquareScaledToCanvasHeight ==
    /\ \A i \in 1..Len(image_files) :
          FailedAt(image_files[i])
          => FileAt(image_files[i][1]).img[1] # FileAt(image_files[i][1]).img[2]
    /\ \A i \in 1..Len(resized_images) :
          SquareSource(resized_images[i])
          => resized_images[i].size = <<resolution[2], resolution[2]>>

\* C5's case: a square image was scaled for a canvas that is not square
C5_Witness ==
    /\ resized_images # <<>>
    /\ SquareSource(resized_images[1])
    /\ resolution[1] # resolution[2]
    /\ resized_images[1].size = <<resolution[2], resolution[2]>>

\* C10: every image of at least 1x1 is scaled, for every resolution of at
\* least 1x1, to a size of at least 1x1 inside the canvas, pasted at
\* offsets that are not negative: the transform never fails on a size and
\* no frame's image leaves its canvas.
C10_ScaledImageInsideCanvas ==
    /\ \A i \in 1..Len(image_files) :
          FailedAt(image_files[i]) => ~Decodes(image_files[i])
    /\ \A i \in 1..Len(resized_images) :
          LET frame == resized_images[i]
          IN  /\ 1 <= frame.size[1] /\ frame.size[1] <= frame.canvas[1]
              /\ 1 <= frame.size[2] /\ frame.size[2] <= frame.canvas[2]
              /\ frame.position[1] >= 0
              /\ frame.position[2] >= 0

\* the extension of a file name: what follows its last dot, in lower case
HasImageExtension(name) ==
    \E k \in 1..Len(name) :
        /\ name[k] = "."
        /\ \A j \in (k + 1)..Len(name) : name[j] # "."
        /\ Lower(SubSeq(name, k + 1, Len(name)))
              \in { <<"p", "n", "g">>, <<"j", "p", "g">>,
                    <<"j", "p", "e", "g">>, <<"g", "i", "f">> }

\* the number of files with an image extension in the first k directories
MatchingFiles(k) ==
    Cardinality({p \in UNION {{<<d, i>> : i \in 1..Len(walk[d])} : d \in 1..k} :
                    HasImageExtension(FileAt(p).name)})

\* C9: find_images emits one progress text per directory visited; the k-th
\* names k folders and the number of image files of the first k
\* directories; neither number ever drops; and when find_images returns, one
\* text per directory of the walk was emitted, the last one names the
\* length of the returned list, and that list is the one imgg.py's
\* find_images returns.
C9_ProgressCountsPerDirectory ==
    /\ Len(progress) = num_folders_scanned
    /\ \A k \in 1..Len(progress) : progress[k] = <<k, MatchingFiles(k)>>
    /\ \A k \in 1..(Len(progress) - 1) :
          /\ progress[k][1] <= progress[k + 1][1]
          /\ progress[k][2] <= progress[k + 1][2]
    /\ pc = "stat"
       => /\ Len(progress) = Len(walk)
          /\ progress[Len(progress)][2] = Len(all_image_paths)
          /\ all_image_paths = ImggFindImages(1)

\* C9's case: a returned walk of three directories whose counts differ, with
\* an upper-case image name and a file that is no image
C9_Witness ==
    /\ pc = "stat"
    /\ Len(progress) = 3
    /\ progress[1][2] < progress[3][2]
    /\ \E p \in Range(all_image_paths) : FileAt(p).name # Lower(FileAt(p).name)
    /\ \E d \in 1..Len(walk) : \E i \in 1..Len(walk[d]) : ~IsImageName(walk[d][i].name)

====
